---------------------------- MODULE Spec2Model ----------------------------
(***************************************************************************)
(* Model of the resumable ETL pipeline of uk-legislation-pipeline:         *)
(* the checkpoint manager (src/src/utils/checkpoint.py), the stage runner  *)
(* (src/src/main.py), the scraper's page cache                             *)
(* (src/src/extractors/legislation_scraper.py), the embeddings generator   *)
(* (src/src/text_transformers/embeddings.py) and the two store loaders     *)
(* (src/src/loaders/sql_loader.py, src/src/loaders/vector_loader.py).      *)
(*                                                                         *)
(* Fault model: the process can be killed between any two steps and in the *)
(* middle of a file write; a store write can fail; a page can be           *)
(* permanently unavailable; a checkpoint file can be damaged while the     *)
(* process is down.  Wall-clock values (start_time, last_update, the       *)
(* "time" of an error, durations) are not modelled: they are abstracted to *)
(* the token 1 where a key must be present.                                *)
(***************************************************************************)
EXTENDS Naturals, Integers, Sequences, FiniteSets, TLC

(***************************************************************************)
(* Bounds of the model.                                                    *)
(***************************************************************************)
\* number of rows on the search page (search results)
NItems == 3
\* CheckpointManager(interval=...): non-forced saves every interval-th item
Interval == 2
\* batch_size of the extract loop
BatchSize == 2
\* number of pipeline processes started one after the other
MaxRuns == 2
\* number of store writes that fail
MaxFaults == 1
\* number of calls made to a checkpoint manager taken alone
MaxOps == 3
\* number of threads that call one checkpoint manager at the same time
NWorkers == 2

(***************************************************************************)
(* Values.                                                                 *)
(***************************************************************************)
\* Python's None where a stage name or a key is expected
None == "None"
\* Python's None where an identifier is expected (identifiers are numbers)
NoId == 0

Stages == <<"extract", "transform", "load", "complete">>

Urls == 1 .. NItems
\* the URL of the search page, fetched through the same page cache
SearchUrl == 0

\* _generate_legislation_id: sha256 of the url; injective, and the result is
\* not a url
_generate_legislation_id(meta) == 10 + meta.url

\* search_legislation builds one dict per row: title, url, doc_id, year,
\* number, type, month.  There is no key 'id'.
SearchRow(u) == [url |-> u, doc_id |-> u]

\* dict.get(key) of a search row
ItemGet(item, key) == IF key \in DOMAIN item THEN item[key] ELSE NoId

RECURSIVE SeqSum(_)
SeqSum(s) == IF s = <<>> THEN 0 ELSE Head(s) + SeqSum(Tail(s))

SeqToSet(s) == {s[k] : k \in 1 .. Len(s)}

\* The chunk layout of the document behind url u when its page is complete:
\* one entry per section, the number of chunks of that section.
Layout(u) == IF u = 1 THEN <<2, 2>> ELSE IF u = 2 THEN <<1, 2>> ELSE <<1>>

(***************************************************************************)
(* CheckpointManager: the state dict and the files on disk.                *)
(* cm is the pair of the in-memory state dict and the canonical checkpoint *)
(* files, so that the methods can be composed inside one step.             *)
(***************************************************************************)
\* the state dict built by __init__ and by reset
FreshState(pid) ==
    [pipeline_id     |-> pid,
     items_processed |-> 0,
     processed_ids   |-> <<>>,
     current_batch   |-> <<>>,
     current_stage   |-> None,
     stats           |-> <<>>,
     error           |-> <<>>]

\* a file on disk: absent, holding a complete JSON document, or holding a
\* prefix of one (json.load raises)
NoFile == [kind |-> "absent", data |-> FreshState(0)]
TornFile == [kind |-> "torn", data |-> FreshState(0)]
JsonFile(st) == [kind |-> "json", data |-> st]

\* stats is a dict: a set of <<key, value>> pairs kept as a sequence-free
\* function from the keys present
StatGet(stats, key) == IF \E p \in SeqToSet(stats) : p[1] = key
                       THEN (CHOOSE p \in SeqToSet(stats) : p[1] = key)[2]
                       ELSE 0
StatHas(stats, key) == \E p \in SeqToSet(stats) : p[1] = key
StatPut(stats, key, value) ==
    IF StatHas(stats, key)
    THEN [k \in 1 .. Len(stats) |->
             IF stats[k][1] = key THEN <<key, value>> ELSE stats[k]]
    ELSE Append(stats, <<key, value>>)

\* save, lines 131-133: a save that is not forced is skipped unless
\* items_processed is a multiple of the interval
ShouldSave(st, force) == force \/ st.items_processed % Interval = 0

\* save, taken as one step: the temporary file is written and moved over the
\* canonical file of this pipeline id.  wrote tells whether the files were
\* written.
save(cm, force) ==
    IF ShouldSave(cm.st, force)
    THEN [st |-> cm.st,
          cn |-> [cm.cn EXCEPT ![cm.st.pipeline_id] = JsonFile(cm.st)],
          wrote |-> TRUE]
    ELSE [cm EXCEPT !.wrote = FALSE]

update_stage_unforced(cm, stage) ==
    save([cm EXCEPT !.st.current_stage = stage], FALSE)

update_stage_clearing(cm, stage) ==
    save([cm EXCEPT !.st.current_stage = stage, !.st.error = <<>>], TRUE)

update_stage(cm, stage) ==
    save([cm EXCEPT !.st.current_stage = stage], TRUE)

update_batch(cm, batch_info) ==
    save([cm EXCEPT !.st.current_batch = <<batch_info>>], FALSE)

mark_processed_unguarded(cm, item_id) ==
    save([cm EXCEPT !.st.processed_ids = Append(@, item_id),
                    !.st.items_processed = @ + 1], FALSE)

mark_processed(cm, item_id) ==
    IF item_id \notin SeqToSet(cm.st.processed_ids)
    THEN save([cm EXCEPT !.st.processed_ids = Append(@, item_id),
                         !.st.items_processed = @ + 1], FALSE)
    ELSE [cm EXCEPT !.wrote = FALSE]

\* the list comprehension of mark_batch_processed: the ids of item_ids that
\* are not in processed_ids, in order, each as often as it occurs
RECURSIVE NewItems(_, _)
NewItems(item_ids, processed) ==
    IF item_ids = <<>> THEN <<>>
    ELSE IF Head(item_ids) \notin processed
         THEN <<Head(item_ids)>> \o NewItems(Tail(item_ids), processed)
         ELSE NewItems(Tail(item_ids), processed)

mark_batch_processed_replacing(cm, item_ids) ==
    LET new_items == NewItems(item_ids, SeqToSet(cm.st.processed_ids))
    IN  save([cm EXCEPT !.st.processed_ids = new_items,
                        !.st.items_processed = @ + Len(new_items)], FALSE)

mark_batch_processed(cm, item_ids) ==
    LET new_items == NewItems(item_ids, SeqToSet(cm.st.processed_ids))
    IN  save([cm EXCEPT !.st.processed_ids = @ \o new_items,
                        !.st.items_processed = @ + Len(new_items)], FALSE)

is_processed(st, item_id) == item_id \in SeqToSet(st.processed_ids)

update_stats(cm, key, value) ==
    save([cm EXCEPT !.st.stats = StatPut(@, key, value)], FALSE)

increment_stat(cm, key, increment) ==
    save([cm EXCEPT !.st.stats =
              StatPut(@, key, StatGet(@, key) + increment)], FALSE)

record_error_unforced(cm, error, stage) ==
    save([cm EXCEPT !.st.error =
              <<[message |-> error,
                 stage |-> IF stage # None THEN stage
                           ELSE cm.st.current_stage]>>], FALSE)

\* record_error(error, stage=None): the stage recorded is the argument or,
\* without one, the current stage
record_error(cm, error, stage) ==
    save([cm EXCEPT !.st.error =
              <<[message |-> error,
                 stage |-> IF stage # None THEN stage
                           ELSE cm.st.current_stage]>>], TRUE)

clear_error(cm) ==
    IF cm.st.error # <<>>
    THEN save([cm EXCEPT !.st.error = <<>>], TRUE)
    ELSE [cm EXCEPT !.wrote = FALSE]

get_processed_count(st) == st.items_processed

get_processed_ids(st) == st.processed_ids

reset_in_memory(cm) ==
    [cm EXCEPT !.st = FreshState(cm.st.pipeline_id), !.wrote = FALSE]

\* reset: every field but pipeline_id as __init__ sets it, then save(force)
reset(cm) == save([cm EXCEPT !.st = FreshState(cm.st.pipeline_id)], TRUE)

_load_checkpoint_no_fallback(pid, cn, tm) ==
    IF cn[pid].kind = "json" THEN cn[pid].data ELSE FreshState(pid)

\* _load_checkpoint, called by __init__ on the fresh state dict: the
\* canonical file if json.load accepts it, else the temporary file if it
\* exists and json.load accepts it, else the fresh state
_load_checkpoint(pid, cn, tm) ==
    IF cn[pid].kind = "absent" THEN FreshState(pid)
    ELSE IF cn[pid].kind = "json" THEN cn[pid].data
    ELSE IF tm[pid].kind = "json" THEN tm[pid].data
    ELSE FreshState(pid)

\* True when _load_checkpoint returns True (a snapshot was loaded)
LoadedSnapshot(pid, cn, tm) ==
    \/ cn[pid].kind = "json"
    \/ cn[pid].kind = "torn" /\ tm[pid].kind = "json"

(***************************************************************************)
(* Files of the cache directory.  A directory is a function from the names *)
(* present to the file contents.                                           *)
(***************************************************************************)
EmptyDir == [x \in {} |-> 0]

Put(dir, name, content) ==
    [x \in DOMAIN dir \cup {name} |-> IF x = name THEN content ELSE dir[x]]

\* _fetch_with_cache, lines 45-46
max_retries == 3
retry_delay == 2

SameDelay(delay) == delay

\* line 59: retry_delay *= 2
NextDelay(delay) == delay * 2

\* the for loop of _fetch_with_cache, lines 47-62, from attempt number
\* attempt on, and the same loop of the two _connect with their own
\* number of retries: the first fails attempts raise an exception the loop
\* catches and the next one succeeds.  attempts is the number of attempts
\* made, slept the delays passed to time.sleep in order, raised whether the
\* last exception is raised again.
RECURSIVE RetryLoop(_, _, _, _)
RetryLoop(attempt, delay, fails, retries) ==
    IF attempt >= retries
    THEN [attempts |-> attempt, slept |-> <<>>, raised |-> FALSE]
    ELSE IF attempt >= fails
    THEN [attempts |-> attempt + 1, slept |-> <<>>, raised |-> FALSE]
    ELSE IF attempt < retries - 1
    THEN LET rest == RetryLoop(attempt + 1, NextDelay(delay), fails, retries)
         IN  [rest EXCEPT !.slept = <<delay>> \o @]
    ELSE [attempts |-> attempt + 1, slept |-> <<>>, raised |-> TRUE]

\* the requests of one fetch of url from the web: a url of down fails at
\* every attempt
WebFetch(url, down) ==
    RetryLoop(0, retry_delay, IF url \in down THEN max_retries ELSE 0,
              max_retries)

\* SQLLoader._connect and VectorLoader._connect: max_retries = 5
connect_max_retries == 5

\* the ways a request or a connection attempt can fail at every attempt:
\* for a while only (a timeout, a refused connection) or for good (a 404
\* status, rejected credentials)
TransientKinds == {"timeout", "refused"}
PermanentKinds == {"http_404", "bad_credentials"}

\* _fetch_with_cache, lines 48-55: 'except requests.RequestException' around
\* session.get and raise_for_status; the HTTPError that raise_for_status
\* raises for a 404 is a RequestException, like a timeout
FetchCatches(kind) == kind \in {"timeout", "refused", "http_404"}

\* the two _connect: 'except Exception' around the connection attempt
ConnectCatches(kind) == TRUE

\* the number of attempts made when every attempt fails in the same way
FetchAttempts(kind) ==
    IF FetchCatches(kind)
    THEN RetryLoop(0, retry_delay, max_retries, max_retries).attempts
    ELSE 1

ConnectAttempts(kind) ==
    IF ConnectCatches(kind)
    THEN RetryLoop(0, retry_delay, connect_max_retries,
                   connect_max_retries).attempts
    ELSE 1

\* _fetch_with_cache(url): the cached page if the cache file exists, whatever
\* it holds; else the page from the web, written to the cache file; raises
\* when every attempt fails.  A page is "full" (the whole page) or "torn" (the
\* file was created by open(cache_path, 'w') and the process was killed before
\* the text was flushed).
_fetch_with_cache(url, pages, down) ==
    IF pages[url] # "none"
    THEN [text |-> pages[url], pages |-> pages, raised |-> FALSE]
    ELSE IF WebFetch(url, down).raised
         THEN [text |-> "none", pages |-> pages, raised |-> TRUE]
         ELSE [text |-> "full", pages |-> [pages EXCEPT ![url] = "full"],
               raised |-> FALSE]

\* search_legislation: the rows of the search page, in page order; a page
\* without rows gives the empty list; a failed fetch propagates
search_legislation(pages, down) ==
    LET f == _fetch_with_cache(SearchUrl, pages, down)
    IN  [results |-> IF f.text = "full"
                     THEN [k \in 1 .. NItems |-> SearchRow(k)] ELSE <<>>,
         pages |-> f.pages, raised |-> f.raised]

fetch_legislation_content_always(item, pages, down) ==
    [data |-> <<[id |-> _generate_legislation_id(item), url |-> item.url,
                 html_content |-> "none"]>>,
     pages |-> pages]

\* fetch_legislation_content(item): None (here <<>>) without url or doc_id or
\* when the fetch raises, else the raw record with its generated id
fetch_legislation_content(item, pages, down) ==
    IF ItemGet(item, "url") = NoId \/ ItemGet(item, "doc_id") = NoId
    THEN [data |-> <<>>, pages |-> pages]
    ELSE LET f == _fetch_with_cache(item.url, pages, down)
         IN  IF f.raised THEN [data |-> <<>>, pages |-> pages]
             ELSE [data |-> <<[id |-> _generate_legislation_id(item),
                               url |-> item.url,
                               html_content |-> f.text]>>,
                   pages |-> f.pages]

\* LegislationCleaner.clean: the sections found in html_content; the id is
\* kept.  A torn page has no section.
clean(raw) ==
    [id |-> raw.id,
     content |-> IF raw.html_content = "full" THEN Layout(raw.url) ELSE <<>>]

\* the number of chunks before section number s (1-based) of a layout
ChunksBefore(content, s) == SeqSum(SubSeq(content, 1, s - 1))

\* generate_embeddings: one entry per chunk, sections in order and chunks in
\* order inside a section; section_idx and chunk_idx are 0-based; point_id is
\* a counter that starts at 0 for every document
generate_embeddings(cleaned) ==
    LET content == cleaned.content
        total == SeqSum(content)
        SectionOf(k) == CHOOSE s \in 1 .. Len(content) :
                            /\ ChunksBefore(content, s) < k
                            /\ k <= ChunksBefore(content, s) + content[s]
    IN  [id |-> cleaned.id,
         content |-> content,
         embeddings |->
             [k \in 1 .. total |->
                 [section_idx |-> SectionOf(k) - 1,
                  chunk_idx |-> k - ChunksBefore(content, SectionOf(k)) - 1,
                  point_id |-> k - 1]]]

(***************************************************************************)
(* The structured store (db_type "postgresql", the default, with           *)
(* autocommit: a statement that succeeded stays done when a later one      *)
(* fails) and the vector store.                                            *)
(***************************************************************************)
\* an embedded file that holds no document
NoDoc == [id |-> NoId, content |-> <<>>, embeddings |-> <<>>]

EmptySql == [legislation |-> {}, sections |-> {}, embeddings |-> {}]

\* the embedding_id column: the string "<legislation_id>_s<section>_c<chunk>"
EmbeddingId(legislation_id, e) ==
    <<legislation_id, "s", e.section_idx, "c", e.chunk_idx>>

store_legislation_append(sql, doc, fault) ==
    LET lid == doc.id
        n == Cardinality({r \in sql.sections : r[1] = lid})
    IN  [sql |-> [sql EXCEPT
                     !.legislation = @ \cup {lid},
                     !.sections =
                        @ \cup {<<lid, n + idx - 1>> :
                                  idx \in 1 .. Len(doc.content)}],
         ok |-> fault = "none"]

\* store_legislation.  fault names the statement that raises: "none",
\* "legislation" (the upsert of the main row), "sections" (an insert into
\* legislation_sections) or "embeddings" (an insert into
\* legislation_embeddings).
store_legislation(sql, doc, fault) ==
    LET lid == doc.id
        upserted == [sql EXCEPT !.legislation = @ \cup {lid}]
        sectioned ==
            IF doc.content # <<>>
            THEN [upserted EXCEPT !.sections =
                     {r \in @ : r[1] # lid}
                     \cup {<<lid, idx - 1>> : idx \in 1 .. Len(doc.content)}]
            ELSE upserted
        sectionsDeleted ==
            [upserted EXCEPT !.sections = {r \in @ : r[1] # lid}]
        referenced ==
            IF doc.embeddings # <<>>
            THEN [sectioned EXCEPT !.embeddings =
                     {r \in @ : r.legislation_id # lid}
                     \cup {[legislation_id |-> lid,
                            section_idx |-> doc.embeddings[k].section_idx,
                            chunk_idx |-> doc.embeddings[k].chunk_idx,
                            embedding_id |->
                                EmbeddingId(lid, doc.embeddings[k])]
                           : k \in 1 .. Len(doc.embeddings)}]
            ELSE sectioned
        refsDeleted ==
            [sectioned EXCEPT !.embeddings =
                 {r \in @ : r.legislation_id # lid}]
    IN  IF fault = "legislation" THEN [sql |-> sql, ok |-> FALSE]
        ELSE IF fault = "sections" /\ doc.content # <<>>
             THEN [sql |-> sectionsDeleted, ok |-> FALSE]
        ELSE IF fault = "embeddings" /\ doc.embeddings # <<>>
             THEN [sql |-> refsDeleted, ok |-> FALSE]
        ELSE [sql |-> referenced, ok |-> TRUE]

\* the points of the collection: a function from point id to payload
EmptyVec == [x \in {} |-> 0]

\* _delete_legislation_embeddings: delete by the payload's legislation_id; a
\* failure is logged and swallowed
_delete_legislation_embeddings(vec, legislation_id, fails) ==
    IF fails THEN vec
    ELSE [p \in {q \in DOMAIN vec : vec[q].legislation_id # legislation_id}
             |-> vec[p]]

\* store_embeddings, lines 134-142: the point id is the entry's point_id when
\* it is an integer, else the first four bytes of the md5 of
\* "<legislation_id>_s<section>_c<chunk>" (kept apart from the counters)
PointId(legislation_id, e) ==
    IF "point_id" \in DOMAIN e THEN e.point_id
    ELSE 1000 + 100 * legislation_id + 10 * e.section_idx + e.chunk_idx

\* batch_size of the upsert loop of store_embeddings (500 in the source,
\* scaled down so that a document of the model needs more than one upsert)
UpsertBatch == 2

\* upsert of the points of the entries first .. last of a document
Upsert(vec, doc, first, last) ==
    LET new == {PointId(doc.id, doc.embeddings[k]) : k \in first .. last}
        EntryOf(p) == CHOOSE k \in first .. last :
                          /\ PointId(doc.id, doc.embeddings[k]) = p
                          /\ \A j \in first .. last :
                                PointId(doc.id, doc.embeddings[j]) = p => j <= k
    IN  [p \in DOMAIN vec \cup new |->
            IF p \in new
            THEN [legislation_id |-> doc.id,
                  section_idx |-> doc.embeddings[EntryOf(p)].section_idx,
                  chunk_idx |-> doc.embeddings[EntryOf(p)].chunk_idx]
            ELSE vec[p]]

store_embeddings_append(vec, doc, fault, failBatch) ==
    LET n == Len(doc.embeddings)
        free == CHOOSE q \in 0 .. Cardinality(DOMAIN vec) : q \notin DOMAIN vec
    IN  [vec |-> [p \in DOMAIN vec \cup (free .. free + n - 1) |->
                     IF p \in DOMAIN vec THEN vec[p]
                     ELSE LET e == doc.embeddings[p - free + 1]
                          IN  [legislation_id |-> doc.id,
                               section_idx |-> e.section_idx,
                               chunk_idx |-> e.chunk_idx]],
         ok |-> n > 0]

\* store_embeddings.  fault is "none", "delete" (the delete call raises) or
\* "upsert" (the upsert of batch number failBatch raises; the batches before
\* it are stored).
store_embeddings(vec, doc, fault, failBatch) ==
    IF doc.embeddings = <<>> THEN [vec |-> vec, ok |-> FALSE]
    ELSE LET deleted ==
                 _delete_legislation_embeddings(vec, doc.id, fault = "delete")
             n == Len(doc.embeddings)
             batches == (n + UpsertBatch - 1) \div UpsertBatch
             failing == fault = "upsert" /\ failBatch \in 1 .. batches
             done == IF failing THEN (failBatch - 1) * UpsertBatch ELSE n
         IN  [vec |-> Upsert(deleted, doc, 1, done), ok |-> ~failing]

(***************************************************************************)
(* State.                                                                  *)
(***************************************************************************)
VARIABLES
    \* CheckpointManager
    state,            \* self.state of the running process
    canon,            \* the canonical checkpoint file of every pipeline id
    tmpf,             \* the temporary checkpoint file of every pipeline id
    now,              \* the clock, in seconds: the next pipeline id
    \* ETLPipeline.run
    pc,               \* position of the process
    cur,              \* run's local current_stage, read once at the start
    result,           \* what run returned: "none" while it runs
    idx,              \* number of search results the extract loop is past
    search_results,   \* the list returned by search_legislation
    processed_local,  \* the set processed_ids built when extract starts
    todo,             \* embedded files the load loop has not reached yet
    success_count,    \* success_count of the load loop
    \* the cache directory and the outside world
    pages,            \* the page cache: "none", "full" or "torn" per url
    rawDir, cleanDir, embDir,
    down,             \* the urls that cannot be fetched
    flaky,            \* the stores can fail in this environment
    sql, vec,         \* the two stores
    \* history, for the properties
    runs,             \* number of processes started so far
    executed,         \* stages whose body this run has entered, in order
    fetched,          \* urls fetch_legislation_content was called for, this run
    loaded,           \* the state dict as __init__ left it, this run
    resumed,          \* _load_checkpoint returned True, this run
    crashStage,       \* stage whose body was running when the process whose
                      \* snapshot this run loaded was killed
    torn,             \* a page cache file was left torn by a kill
    faults,           \* number of store writes that failed so far
    partial,          \* ids whose latest load had the structured write
                      \* succeed and the vector write fail part-way
    partialPrev,      \* partial as it was when this run's load loop began
    lastLoad,         \* the file and the outcome of the latest load
    bothOk,           \* number of files of this load loop for which both
                      \* loaders returned True
    failed,           \* the <<stage, id>> whose latest handling raised
    loadOrder,        \* the ids loaded so far by this load loop, in order
    prevPass,         \* the latest load loop that reached its end: its
                      \* order, whether every file was loaded, and the
                      \* stores it left (kept when the load phase is
                      \* replayed alone)
    futures,          \* the tasks submitted to the thread pool of the
                      \* transform stage and how far each one is (kept
                      \* when the transform phase is taken alone)
    damaged,          \* a checkpoint file was damaged while no process ran
    ops,              \* number of calls made to the checkpoint manager
    lastCall,         \* the latest call made to the manager taken alone: its
                      \* name, the ids passed, and the state dict before it
    wk                \* the threads that call the manager at the same time:
                      \* position, id to mark, and counter value read

ckVars == <<state, canon, tmpf, now>>
runVars == <<pc, cur, result, idx, search_results, processed_local, todo,
             success_count>>
fsVars == <<pages, rawDir, cleanDir, embDir, down, flaky>>
storeVars == <<sql, vec>>
histVars == <<runs, executed, fetched, loaded, resumed, crashStage, torn>>
passHist == <<loadOrder, prevPass, futures>>
loadHist == <<faults, partial, partialPrev, lastLoad, bothOk, failed,
              passHist>>
saveHist == <<damaged, ops, lastCall, wk>>
vars == <<ckVars, runVars, fsVars, storeVars, histVars, loadHist, saveHist>>

Pids == 0 .. MaxRuns - 1
Workers == 1 .. NWorkers
CM == [st |-> state, cn |-> canon, wrote |-> FALSE]

\* the durable snapshot of the running manager
Durable == canon[state.pipeline_id]

(***************************************************************************)
(* ETLPipeline: construction and run.                                      *)
(***************************************************************************)
\* the latest load of a file: the file, what the two loaders returned,
\* whether the file was counted, and whether it repeats the load before it
\* (same file, both loads with every write succeeding)
NoLoad ==
    [file |-> NoDoc, sql_ok |-> FALSE, vec_ok |-> FALSE, counted |-> FALSE,
     again |-> FALSE]

NoCall == [op |-> "none", ids |-> <<>>, before |-> FreshState(0)]

\* a thread that has not called the manager yet
IdleWorker == [pc |-> "idle", id |-> NoId, read |-> 0]

\* no task has been submitted
NoFutures == [t \in {} |-> "queued"]

\* no load loop has reached its end
NoPass == [order |-> <<>>, all |-> FALSE, sql |-> EmptySql, vec |-> EmptyVec]

\* the state after ETLPipeline.__init__ in an empty data directory
InitCommon ==
    /\ now = 0
    /\ state = FreshState(0)
    /\ canon = [p \in Pids |-> NoFile]
    /\ tmpf = [p \in Pids |-> NoFile]
    /\ pc = "start" /\ cur = None /\ result = "none" /\ idx = 0
    /\ search_results = <<>> /\ processed_local = {} /\ todo = {}
    /\ success_count = 0
    /\ pages = [u \in {SearchUrl} \cup Urls |-> "none"]
    /\ rawDir = EmptyDir /\ cleanDir = EmptyDir /\ embDir = EmptyDir
    /\ sql = EmptySql /\ vec = EmptyVec
    /\ runs = 1 /\ executed = <<>> /\ fetched = <<>>
    /\ loaded = FreshState(0) /\ resumed = FALSE /\ crashStage = None
    /\ torn = FALSE
    /\ faults = 0 /\ partial = {} /\ partialPrev = {}
    /\ lastLoad = NoLoad
    /\ bothOk = 0
    /\ failed = {}
    /\ loadOrder = <<>> /\ prevPass = NoPass
    /\ futures = NoFutures
    /\ damaged = FALSE /\ ops = 0
    /\ lastCall = NoCall
    /\ wk = [w \in Workers |-> IdleWorker]

\* the stores never fail; the search page, the page of the last item or the
\* pages of all items may be permanently unavailable
Init ==
    /\ InitCommon
    /\ down \in {{}, {SearchUrl}, {NItems}, Urls}
    /\ flaky = FALSE

\* the sets of files of a directory whose handling can raise in one stage
ItemFaults(dir) ==
    {bad \in SUBSET DOMAIN dir :
        bad = {} \/ (flaky /\ faults + Cardinality(bad) <= MaxFaults)}

\* the items whose latest handling in a stage raised: those of ids are
\* handled again and those of bad raise
Handled(f, stage, ids, bad) ==
    (f \ {<<stage, id>> : id \in ids}) \cup {<<stage, id>> : id \in bad}

RunsExtractAlways(current_stage) == TRUE

\* run, lines 167, 172 and 177: the stages run for the current_stage read at
\* the start
RunsExtract(current_stage) == current_stage \in {None, "extract"}
RunsTransform(current_stage) ==
    current_stage \in {None, "extract", "transform"}
RunsLoadFromScratch(current_stage) ==
    current_stage \in {None, "extract", "transform"}
RunsLoad(current_stage) ==
    current_stage \in {None, "extract", "transform", "load"}

\* run, lines 196-199: the except clause
Failed(cm, message) ==
    LET r == record_error(cm, message, None)
    IN  /\ state' = r.st
        /\ canon' = r.cn
        /\ result' = "False"
        /\ pc' = "done"

\* run, lines 145-163: _init_databases and the read of current_stage
RunBegin ==
    /\ pc = "start"
    /\ \E dbOk \in BOOLEAN :
          IF dbOk
          THEN /\ cur' = state.current_stage
               /\ pc' = "pre_extract"
               /\ UNCHANGED result
          ELSE /\ result' = "False"
               /\ pc' = "done"
               /\ UNCHANGED cur
    /\ UNCHANGED <<saveHist, loadHist, ckVars, idx, search_results,
                   processed_local, todo, success_count, fsVars, storeVars,
                   histVars>>

\* run, lines 167-169, and _run_extract_phase up to the batch loop
BeginExtract ==
    /\ pc = "pre_extract"
    /\ IF RunsExtract(cur)
       THEN LET cm1 == update_stage(CM, "extract")
                sr == search_legislation(pages, down)
                cm2 == update_stats(cm1, "total_items", Len(sr.results))
            IN  /\ executed' = Append(executed, "extract")
                /\ processed_local' = SeqToSet(get_processed_ids(cm1.st))
                /\ IF sr.raised
                   THEN /\ Failed(cm1, "search")
                        /\ UNCHANGED <<search_results, pages, idx>>
                   ELSE /\ state' = cm2.st
                        /\ canon' = cm2.cn
                        /\ search_results' = sr.results
                        /\ pages' = sr.pages
                        /\ idx' = 0
                        /\ pc' = IF sr.results = <<>> THEN "pre_transform"
                                 ELSE "extract_loop"
                        /\ UNCHANGED result
       ELSE /\ pc' = "pre_transform"
            /\ UNCHANGED <<state, canon, executed, processed_local,
                           search_results, pages, idx, result>>
    /\ UNCHANGED <<saveHist, loadHist, tmpf, now, cur, todo, success_count,
                   rawDir, cleanDir, embDir, down, flaky, storeVars, runs,
                   fetched, loaded, resumed, crashStage, torn>>

BatchInfoWhole(i, n) ==
    [batch_index |-> 1, batch_size |-> n, start_index |-> 0, end_index |-> n]

\* the dict passed to update_batch for the batch that starts at index i
BatchInfo(i, n) ==
    LET size == IF i + BatchSize <= n THEN BatchSize ELSE n - i
    IN  [batch_index |-> i \div BatchSize + 1, batch_size |-> size,
         start_index |-> i, end_index |-> i + size]

\* the checkpoint after the update_batch that opens a batch, if idx opens one
AtBatchStart ==
    IF idx % BatchSize = 0
    THEN update_batch(CM, BatchInfo(idx, Len(search_results)))
    ELSE CM

\* _run_extract_phase, lines 249-275: one iteration of the item loop
ExtractItem ==
    /\ pc = "extract_loop"
    /\ LET item == search_results[idx + 1]
           item_id == ItemGet(item, "id")
           cm1 == AtBatchStart
           f == fetch_legislation_content(item, pages, down)
           cm2 == IF f.data # <<>> THEN mark_processed(cm1, f.data[1].id)
                  ELSE cm1
       IN  IF item_id \in processed_local
           THEN /\ state' = cm1.st
                /\ canon' = cm1.cn
                /\ UNCHANGED <<pages, rawDir, fetched, failed>>
           ELSE /\ fetched' = Append(fetched, item.url)
                /\ pages' = f.pages
                /\ rawDir' = IF f.data # <<>>
                             THEN Put(rawDir, f.data[1].id, f.data[1])
                             ELSE rawDir
                /\ failed' =
                      Handled(failed, "extract",
                              {_generate_legislation_id(item)},
                              IF f.data # <<>> THEN {}
                              ELSE {_generate_legislation_id(item)})
                /\ state' = cm2.st
                /\ canon' = cm2.cn
    /\ idx' = idx + 1
    /\ pc' = IF idx + 1 = Len(search_results) THEN "pre_transform"
             ELSE "extract_loop"
    /\ UNCHANGED <<saveHist, faults, partial, partialPrev, lastLoad, bothOk,
                   passHist, tmpf, now, cur, result, search_results,
                   processed_local, todo, success_count, cleanDir, embDir,
                   down, flaky, storeVars, runs, executed, loaded, resumed,
                   crashStage, torn>>

CleanAllOrNone(raw, cleaned, bad) ==
    IF bad # {} THEN cleaned
    ELSE [id \in DOMAIN cleaned \cup DOMAIN raw |->
             IF id \in DOMAIN raw THEN clean(raw[id]) ELSE cleaned[id]]

\* _run_transform_phase, lines 301-313, and _clean_legislation: one task per
\* raw file; a task that raises returns False and writes no file
CleanAll(raw, cleaned, bad) ==
    [id \in DOMAIN cleaned \cup (DOMAIN raw \ bad) |->
        IF id \in DOMAIN raw \ bad THEN clean(raw[id]) ELSE cleaned[id]]

\* _run_transform_phase, lines 315-328, and _generate_embeddings: one task
\* per clean file; a task that raises returns False and writes no file
EmbedAll(cleaned, embedded, bad) ==
    [id \in DOMAIN embedded \cup (DOMAIN cleaned \ bad) |->
        IF id \in DOMAIN cleaned \ bad THEN generate_embeddings(cleaned[id])
        ELSE embedded[id]]

\* _run_transform_phase, lines 296-313, after run's lines 172-173: every
\* raw file is cleaned and written to the clean directory.  The listing of
\* the raw directory can raise, and so can the cleaning of a file.
TransformClean ==
    /\ pc = "pre_transform"
    /\ IF RunsTransform(cur)
       THEN LET cm1 == update_stage(CM, "transform")
            IN  /\ executed' = Append(executed, "transform")
                /\ \E raises \in BOOLEAN :
                      IF raises
                      THEN /\ Failed(cm1, "listdir")
                           /\ UNCHANGED <<cleanDir, faults, failed>>
                      ELSE /\ state' = cm1.st
                           /\ canon' = cm1.cn
                           /\ \E bad \in ItemFaults(rawDir) :
                                 /\ cleanDir' = CleanAll(rawDir, cleanDir, bad)
                                 /\ faults' = faults + Cardinality(bad)
                                 /\ failed' = Handled(failed, "clean",
                                                      DOMAIN rawDir, bad)
                           /\ pc' = "transform_embed"
                           /\ UNCHANGED result
       ELSE /\ pc' = "pre_load"
            /\ UNCHANGED <<state, canon, executed, cleanDir, result, faults,
                           failed>>
    /\ UNCHANGED <<saveHist, partial, partialPrev, lastLoad, bothOk, passHist,
                   tmpf, now,
                   cur, idx, search_results, processed_local, todo,
                   success_count, pages, rawDir, embDir, down, flaky,
                   storeVars, runs, fetched, loaded, resumed, crashStage,
                   torn>>

\* _run_transform_phase, lines 315-330: embeddings for every clean file
TransformEmbed ==
    /\ pc = "transform_embed"
    /\ \E bad \in ItemFaults(cleanDir) :
          /\ embDir' = EmbedAll(cleanDir, embDir, bad)
          /\ faults' = faults + Cardinality(bad)
          /\ failed' = Handled(failed, "embed", DOMAIN cleanDir, bad)
    /\ pc' = "pre_load"
    /\ UNCHANGED <<saveHist, partial, partialPrev, lastLoad, bothOk, passHist,
                   ckVars,
                   cur, result, idx, search_results, processed_local, todo,
                   success_count, pages, rawDir, cleanDir, down, flaky,
                   storeVars, histVars>>

\* run, lines 177-179, and _run_load_phase up to the file loop.  The listing
\* of the embedded directory can raise.
BeginLoadBody ==
    /\ pc = "pre_load"
    /\ IF RunsLoad(cur)
       THEN LET cm1 == update_stage(CM, "load")
            IN  /\ executed' = Append(executed, "load")
                /\ \E raises \in BOOLEAN :
                      IF raises
                      THEN /\ Failed(cm1, "listdir")
                           /\ UNCHANGED <<todo, success_count, partialPrev,
                                          bothOk>>
                      ELSE /\ state' = cm1.st
                           /\ canon' = cm1.cn
                           /\ todo' = DOMAIN embDir
                           /\ success_count' = 0
                           /\ bothOk' = 0
                           /\ partialPrev' = partial
                           /\ pc' = "load_loop"
                           /\ UNCHANGED result
       ELSE /\ pc' = "finish"
            /\ UNCHANGED <<state, canon, executed, todo, success_count,
                           result, partialPrev, bothOk>>
    /\ UNCHANGED <<saveHist, faults, tmpf, now, cur, idx, search_results,
                   processed_local, fsVars, storeVars, runs, fetched, loaded,
                   resumed, crashStage, torn, partial, lastLoad, failed>>

BeginLoad ==
    /\ BeginLoadBody
    /\ UNCHANGED passHist

EitherLoaded(sql_success, vector_success) == sql_success \/ vector_success

\* _run_load_phase, line 420: the test that counts a file as loaded
FullyLoaded(sql_success, vector_success) == sql_success /\ vector_success

\* the statements of store_legislation that can raise, and the calls of
\* store_embeddings that can raise (with the number of the failing upsert)
SqlFaults == {"none", "legislation", "sections", "embeddings"}
VecFaults == {<<"none", 0>>, <<"delete", 0>>, <<"upsert", 1>>, <<"upsert", 2>>}

\* the model lets MaxFaults store writes fail
FaultsLeft(sf, vf) ==
    LET n == (IF sf # "none" THEN 1 ELSE 0) + (IF vf[1] # "none" THEN 1 ELSE 0)
    IN  n = 0 \/ (flaky /\ faults + n <= MaxFaults)

\* _run_load_phase, lines 408-428: one iteration of the file loop.  os.listdir
\* gives the files in arbitrary order.
LoadFileBody ==
    /\ pc = "load_loop"
    /\ \E d \in todo, sf \in SqlFaults, vf \in VecFaults :
          /\ FaultsLeft(sf, vf)
          /\ LET sql_success == store_legislation(sql, embDir[d], sf)
                 vector_success ==
                     store_embeddings(vec, embDir[d], vf[1], vf[2])
                 both == FullyLoaded(sql_success.ok, vector_success.ok)
             IN  /\ sql' = sql_success.sql
                 /\ vec' = vector_success.vec
                 /\ success_count' = IF both THEN success_count + 1
                                     ELSE success_count
                 /\ todo' = todo \ {d}
                 /\ faults' = faults + (IF sf # "none" THEN 1 ELSE 0)
                                      + (IF vf[1] # "none" THEN 1 ELSE 0)
                 /\ partial' = IF sql_success.ok /\ ~vector_success.ok
                                  /\ vf[1] = "upsert"
                               THEN partial \cup {d} ELSE partial \ {d}
                 /\ lastLoad' =
                       [file |-> embDir[d],
                        sql_ok |-> sql_success.ok,
                        vec_ok |-> vector_success.ok,
                        counted |-> success_count' = success_count + 1,
                        again |-> /\ both
                                  /\ lastLoad.sql_ok /\ lastLoad.vec_ok
                                  /\ lastLoad.file = embDir[d]]
                 /\ bothOk' = IF sql_success.ok /\ vector_success.ok
                              THEN bothOk + 1 ELSE bothOk
                 /\ failed' = Handled(failed, "load", {d},
                                      IF sql_success.ok /\ vector_success.ok
                                      THEN {} ELSE {d})
    /\ UNCHANGED <<saveHist, ckVars, pc, cur, result, idx, search_results,
                   processed_local, fsVars, runs, executed, fetched, loaded,
                   resumed, crashStage, torn, partialPrev>>

LoadFile ==
    /\ LoadFileBody
    /\ UNCHANGED passHist

\* _run_load_phase, lines 430-433
EndLoadBody ==
    /\ pc = "load_loop"
    /\ todo = {}
    /\ LET cm1 == update_stats(CM, "loaded_count", success_count)
       IN  /\ state' = cm1.st
           /\ canon' = cm1.cn
    /\ pc' = "finish"
    /\ UNCHANGED <<saveHist, faults, partial, partialPrev, lastLoad, bothOk,
                   failed, tmpf, now, cur, result, idx, search_results,
                   processed_local, todo, success_count, fsVars, storeVars,
                   histVars>>

EndLoad ==
    /\ EndLoadBody
    /\ UNCHANGED passHist

ExitStatusZero(success) == 0

\* main, lines 444-447: the status passed to sys.exit for what run returned
ExitStatus(success) == IF success THEN 0 ELSE 1

\* run, lines 181-194
Finish ==
    /\ pc = "finish"
    /\ LET cm1 == update_stage(CM, "complete")
           cm2 == update_stats(cm1, "total_duration", 1)
           cm3 == update_stats(cm2, "completed_at", 1)
       IN  /\ state' = cm3.st
           /\ canon' = cm3.cn
    /\ result' = "True"
    /\ pc' = "done"
    /\ UNCHANGED <<saveHist, loadHist, tmpf, now, cur, idx, search_results,
                   processed_local, todo, success_count, fsVars, storeVars,
                   histVars>>

(***************************************************************************)
(* Kills and restarts.                                                     *)
(***************************************************************************)
\* the stage whose body is running at position p
BodyAt(p) == IF p = "extract_loop" THEN "extract"
             ELSE IF p = "transform_embed" THEN "transform"
             ELSE IF p = "load_loop" THEN "load"
             ELSE None

\* the process is killed between two steps
Crash ==
    /\ pc \notin {"done", "crashed"}
    /\ pc' = "crashed"
    /\ crashStage' = BodyAt(pc)
    /\ UNCHANGED <<saveHist, loadHist, ckVars, cur, result, idx,
                   search_results, processed_local, todo, success_count,
                   fsVars, storeVars, runs, executed, fetched, loaded,
                   resumed, torn>>

\* the process is killed inside _fetch_with_cache, lines 52-53, while the
\* search page is being written to its cache file
CrashInSearch ==
    /\ pc = "pre_extract"
    /\ RunsExtract(cur)
    /\ pages[SearchUrl] = "none"
    /\ SearchUrl \notin down
    /\ LET cm1 == update_stage(CM, "extract")
       IN  /\ state' = cm1.st
           /\ canon' = cm1.cn
    /\ executed' = Append(executed, "extract")
    /\ pages' = [pages EXCEPT ![SearchUrl] = "torn"]
    /\ torn' = TRUE
    /\ pc' = "crashed"
    /\ crashStage' = "extract"
    /\ UNCHANGED <<saveHist, loadHist, tmpf, now, cur, result, idx,
                   search_results, processed_local, todo, success_count,
                   rawDir, cleanDir, embDir, down, flaky, storeVars, runs,
                   fetched, loaded, resumed>>

\* the process is killed inside _fetch_with_cache, lines 52-53, while the
\* page of an item is being written to its cache file
CrashInFetch ==
    /\ pc = "extract_loop"
    /\ LET item == search_results[idx + 1]
           cm1 == AtBatchStart
       IN  /\ ItemGet(item, "id") \notin processed_local
           /\ pages[item.url] = "none"
           /\ item.url \notin down
           /\ state' = cm1.st
           /\ canon' = cm1.cn
           /\ fetched' = Append(fetched, item.url)
           /\ pages' = [pages EXCEPT ![item.url] = "torn"]
    /\ torn' = TRUE
    /\ pc' = "crashed"
    /\ crashStage' = "extract"
    /\ UNCHANGED <<saveHist, loadHist, tmpf, now, cur, result, idx,
                   search_results, processed_local, todo, success_count,
                   rawDir, cleanDir, embDir, down, flaky, storeVars, runs,
                   executed, loaded, resumed>>

\* ETLPipeline.__init__, lines 56-60, with CheckpointManager.__init__: a new
\* process.  pipeline_id is the clock reading to the second, so the new
\* process finds the files of the previous one only if the clock reads the
\* same second.
NewRun ==
    /\ pc \in {"done", "crashed"}
    /\ runs < MaxRuns
    /\ \E t \in {now, now + 1} :
          /\ now' = t
          /\ state' = _load_checkpoint(t, canon, tmpf)
          /\ loaded' = _load_checkpoint(t, canon, tmpf)
          /\ resumed' = LoadedSnapshot(t, canon, tmpf)
          /\ crashStage' = IF pc = "crashed" /\ t = now THEN crashStage
                           ELSE None
    /\ runs' = runs + 1
    /\ pc' = "start" /\ cur' = None /\ result' = "none" /\ idx' = 0
    /\ search_results' = <<>> /\ processed_local' = {} /\ todo' = {}
    /\ success_count' = 0
    /\ executed' = <<>> /\ fetched' = <<>>
    /\ UNCHANGED <<saveHist, loadHist, canon, tmpf, fsVars, storeVars, torn>>

Next ==
    \/ RunBegin
    \/ BeginExtract
    \/ ExtractItem
    \/ TransformClean
    \/ TransformEmbed
    \/ BeginLoad
    \/ LoadFile
    \/ EndLoad
    \/ Finish
    \/ Crash
    \/ CrashInSearch
    \/ CrashInFetch
    \/ NewRun

Spec == Init /\ [][Next]_vars

(***************************************************************************)
(* The checkpoint manager taken alone, with save in its three file steps   *)
(* (lines 137-141): open the temporary file for writing, dump the state    *)
(* dict into it and close it, move it over the canonical file.  The        *)
(* process can be killed before and after each of them, and a file can be  *)
(* damaged while no process runs.                                          *)
(***************************************************************************)
OpenCanonicalForWrite(cn, tm, pid) ==
    [cn |-> [cn EXCEPT ![pid] = TornFile], tm |-> tm]

\* save, line 137: open(self.temp_checkpoint_path, 'w') creates or truncates
\* the temporary file; until the dump is complete json.load rejects it
OpenForWrite(cn, tm, pid) ==
    [cn |-> cn, tm |-> [tm EXCEPT ![pid] = TornFile]]

\* the calls a client makes to the manager, with the state dict each leaves
\* and whether it reaches the file steps of save
Calls(cm) ==
    {update_stage(cm, s) : s \in {"extract", "transform"}}
    \cup {mark_processed(cm, _generate_legislation_id(SearchRow(u))) :
             u \in Urls}
    \cup {mark_batch_processed(cm,
              <<_generate_legislation_id(SearchRow(1)),
                _generate_legislation_id(SearchRow(NItems))>>),
          record_error(cm, "error", None),
          clear_error(cm),
          update_stats(cm, "total_items", NItems),
          increment_stat(cm, "retries", 1),
          update_batch(cm, BatchInfo(0, NItems)),
          reset(cm)}

Call ==
    /\ pc = "start"
    /\ ops < MaxOps
    /\ \E r \in Calls(CM) :
          /\ state' = r.st
          /\ pc' = IF r.wrote THEN "saving" ELSE "start"
    /\ ops' = ops + 1
    /\ UNCHANGED <<loadHist, damaged, lastCall, wk, canon, tmpf, now, cur,
                   result, idx,
                   search_results, processed_local, todo, success_count,
                   fsVars, storeVars, histVars>>

SaveOpen ==
    /\ pc = "saving"
    /\ LET f == OpenForWrite(canon, tmpf, state.pipeline_id)
       IN  /\ canon' = f.cn
           /\ tmpf' = f.tm
    /\ pc' = "save_open"
    /\ UNCHANGED <<saveHist, loadHist, state, now, cur, result, idx,
                   search_results, processed_local, todo, success_count,
                   fsVars, storeVars, histVars>>

SaveDump ==
    /\ pc = "save_open"
    /\ tmpf' = [tmpf EXCEPT ![state.pipeline_id] = JsonFile(state)]
    /\ pc' = "save_dumped"
    /\ UNCHANGED <<saveHist, loadHist, state, canon, now, cur, result, idx,
                   search_results, processed_local, todo, success_count,
                   fsVars, storeVars, histVars>>

\* save, line 141: shutil.move to a path of the same directory is
\* os.rename, which replaces the canonical file in one step
SaveMove ==
    /\ pc = "save_dumped"
    /\ canon' = [canon EXCEPT ![state.pipeline_id] = tmpf[state.pipeline_id]]
    /\ tmpf' = [tmpf EXCEPT ![state.pipeline_id] = NoFile]
    /\ pc' = "start"
    /\ UNCHANGED <<saveHist, loadHist, state, now, cur, result, idx,
                   search_results, processed_local, todo, success_count,
                   fsVars, storeVars, histVars>>

\* while no process runs, a checkpoint file that exists is truncated or
\* overwritten with something json.load rejects
Damage ==
    /\ pc = "crashed"
    /\ ~damaged
    /\ \E hitCanon \in BOOLEAN, hitTmp \in BOOLEAN :
          /\ hitCanon \/ hitTmp
          /\ hitCanon => canon[now].kind # "absent"
          /\ hitTmp => tmpf[now].kind # "absent"
          /\ canon' = IF hitCanon THEN [canon EXCEPT ![now] = TornFile]
                      ELSE canon
          /\ tmpf' = IF hitTmp THEN [tmpf EXCEPT ![now] = TornFile]
                     ELSE tmpf
    /\ damaged' = TRUE
    /\ UNCHANGED <<loadHist, ops, lastCall, wk, state, now, runVars, fsVars,
                   storeVars,
                   histVars>>

NextSave ==
    \/ Call
    \/ SaveOpen
    \/ SaveDump
    \/ SaveMove
    \/ Crash
    \/ Damage
    \/ NewRun

InitSave ==
    /\ InitCommon
    /\ down = {}
    /\ flaky = FALSE

SpecSave == InitSave /\ [][NextSave]_vars

(***************************************************************************)
(* The checkpoint manager taken alone, called by one client: every public  *)
(* method is one step, with save as in the stage runner, and the manager   *)
(* can be built again for the same pipeline_id.                            *)
(***************************************************************************)
ItemId(u) == _generate_legislation_id(SearchRow(u))

\* one call: r is what the method leaves
Apply(r, name, ids) ==
    /\ pc = "start"
    /\ ops < MaxOps
    /\ state' = r.st
    /\ canon' = r.cn
    /\ ops' = ops + 1
    /\ lastCall' = [op |-> name, ids |-> ids, before |-> state]
    /\ UNCHANGED <<loadHist, damaged, wk, tmpf, now, runVars, fsVars,
                   storeVars, histVars>>

OpMarkProcessed ==
    \E u \in Urls :
        Apply(mark_processed(CM, ItemId(u)), "mark_processed", <<ItemId(u)>>)

OpMarkBatchProcessed ==
    \E ids \in {<<ItemId(1), ItemId(NItems)>>, <<ItemId(2), ItemId(2)>>} :
        Apply(mark_batch_processed(CM, ids), "mark_batch_processed", ids)

OpUpdateStage ==
    \E stage \in {"extract", "complete"} :
        Apply(update_stage(CM, stage), "update_stage", <<>>)

OpUpdateBatch ==
    Apply(update_batch(CM, BatchInfo(0, NItems)), "update_batch", <<>>)

OpUpdateStats ==
    Apply(update_stats(CM, "total_items", NItems), "update_stats", <<>>)

OpIncrementStat ==
    Apply(increment_stat(CM, "retries", 1), "increment_stat", <<>>)

OpRecordError ==
    \E stage \in {None, "load"} :
        Apply(record_error(CM, "error", stage), "record_error", <<>>)

OpClearError == Apply(clear_error(CM), "clear_error", <<>>)

OpReset == Apply(reset(CM), "reset", <<>>)

OpSave ==
    \E force \in BOOLEAN : Apply(save(CM, force), "save", <<>>)

\* CheckpointManager(pipeline_id=...) built again, for the same pipeline_id
\* or another: __init__ loads the files
OpReload ==
    \E pid \in Pids :
        Apply([st |-> _load_checkpoint(pid, canon, tmpf), cn |-> canon],
              "reload", <<>>)

NextOps ==
    \/ OpMarkProcessed
    \/ OpMarkBatchProcessed
    \/ OpUpdateStage
    \/ OpUpdateBatch
    \/ OpUpdateStats
    \/ OpIncrementStat
    \/ OpRecordError
    \/ OpClearError
    \/ OpReset
    \/ OpSave
    \/ OpReload

SpecOps == InitSave /\ [][NextOps]_vars

(***************************************************************************)
(* One checkpoint manager called by several threads at the same time.  The *)
(* methods take no lock, so the threads interleave between the statements  *)
(* of mark_processed (lines 178-181: the membership test, the append, the  *)
(* read and the write of items_processed += 1, the save) and of            *)
(* record_error (lines 239-244: the assignment, the save).  Every thread   *)
(* makes one call.                                                         *)
(***************************************************************************)
\* thread w moves to position p
Moves(w, p) == wk' = [wk EXCEPT ![w].pc = p]

WStart ==
    /\ \E w \in Workers :
          /\ wk[w].pc = "idle"
          /\ \/ \E id \in {ItemId(1), ItemId(2)} :
                   wk' = [wk EXCEPT ![w] = [pc |-> "mark_check", id |-> id,
                                            read |-> 0]]
             \/ Moves(w, "error_set")
    /\ UNCHANGED <<loadHist, damaged, ops, lastCall, ckVars, runVars, fsVars,
                   storeVars, histVars>>

\* line 178
WCheck ==
    /\ \E w \in Workers :
          /\ wk[w].pc = "mark_check"
          /\ IF is_processed(state, wk[w].id) THEN Moves(w, "done")
             ELSE Moves(w, "mark_append")
    /\ UNCHANGED <<loadHist, damaged, ops, lastCall, ckVars, runVars, fsVars,
                   storeVars, histVars>>

\* line 179
WAppend ==
    /\ \E w \in Workers :
          /\ wk[w].pc = "mark_append"
          /\ state' = [state EXCEPT !.processed_ids = Append(@, wk[w].id)]
          /\ Moves(w, "mark_read")
    /\ UNCHANGED <<loadHist, damaged, ops, lastCall, canon, tmpf, now, runVars,
                   fsVars, storeVars, histVars>>

\* line 180, the read of items_processed
WRead ==
    /\ \E w \in Workers :
          /\ wk[w].pc = "mark_read"
          /\ wk' = [wk EXCEPT ![w].pc = "mark_write",
                              ![w].read = state.items_processed]
    /\ UNCHANGED <<loadHist, damaged, ops, lastCall, ckVars, runVars, fsVars,
                   storeVars, histVars>>

\* line 180, the write of items_processed
WWrite ==
    /\ \E w \in Workers :
          /\ wk[w].pc = "mark_write"
          /\ state' = [state EXCEPT !.items_processed = wk[w].read + 1]
          /\ Moves(w, "mark_save")
    /\ UNCHANGED <<loadHist, damaged, ops, lastCall, canon, tmpf, now, runVars,
                   fsVars, storeVars, histVars>>

\* lines 239-243
WErrorSet ==
    /\ \E w \in Workers :
          /\ wk[w].pc = "error_set"
          /\ state' = [state EXCEPT !.error =
                          <<[message |-> "error",
                             stage |-> state.current_stage]>>]
          /\ Moves(w, "error_save")
    /\ UNCHANGED <<loadHist, damaged, ops, lastCall, canon, tmpf, now, runVars,
                   fsVars, storeVars, histVars>>

\* lines 181 and 244: save, not forced after a mark and forced after an
\* error
WSave ==
    /\ \E w \in Workers :
          /\ wk[w].pc \in {"mark_save", "error_save"}
          /\ canon' = save(CM, wk[w].pc = "error_save").cn
          /\ Moves(w, "done")
    /\ UNCHANGED <<loadHist, damaged, ops, lastCall, state, tmpf, now, runVars,
                   fsVars, storeVars, histVars>>

NextConc ==
    \/ WStart
    \/ WCheck
    \/ WAppend
    \/ WRead
    \/ WWrite
    \/ WErrorSet
    \/ WSave

SpecConc == InitSave /\ [][NextConc]_vars

(***************************************************************************)
(* The pipeline with stores that can fail: the page of the last item is    *)
(* unavailable, a store write can raise, the process is killed, if at all, *)
(* inside the file loop of the load phase, and the next process starts     *)
(* within the same second, so that it finds the checkpoint.                *)
(***************************************************************************)
CrashInLoad ==
    /\ pc = "load_loop"
    /\ Crash

Resume ==
    /\ NewRun
    /\ now' = now

NextLoad ==
    \/ RunBegin
    \/ BeginExtract
    \/ ExtractItem
    \/ TransformClean
    \/ TransformEmbed
    \/ BeginLoad
    \/ LoadFile
    \/ EndLoad
    \/ Finish
    \/ CrashInLoad
    \/ Resume

InitLoad ==
    /\ InitCommon
    /\ down = {NItems}
    /\ flaky = TRUE

SpecLoad == InitLoad /\ [][NextLoad]_vars

\* the embedded file of the document behind url u when its page was fetched
\* whole
FullDoc(u) ==
    generate_embeddings(clean([id |-> _generate_legislation_id(SearchRow(u)),
                               url |-> u, html_content |-> "full"]))

(***************************************************************************)
(* The load phase taken alone and replayed: a process that finds the       *)
(* embedded files of every document and starts at stage load runs          *)
(* _run_load_phase, and the phase is then run again over the same files.   *)
(* Every write succeeds; the stores begin empty or as a load of the first  *)
(* document that failed left them.                                         *)
(***************************************************************************)
PriorStores ==
    {[sql |-> store_legislation(EmptySql, FullDoc(1), sf).sql,
      vec |-> store_embeddings(EmptyVec, FullDoc(1), vf[1], vf[2]).vec] :
        sf \in SqlFaults \ {"none"}, vf \in VecFaults \ {<<"none", 0>>}}
    \cup {[sql |-> EmptySql, vec |-> EmptyVec]}

ReplayBegin ==
    /\ BeginLoadBody
    /\ loadOrder' = <<>>
    /\ UNCHANGED <<prevPass, futures>>

ReplayFile ==
    /\ LoadFileBody
    /\ loadOrder' = Append(loadOrder, CHOOSE d \in todo : d \notin todo')
    /\ UNCHANGED <<prevPass, futures>>

ReplayEnd ==
    /\ EndLoadBody
    /\ prevPass' = [order |-> loadOrder,
                    all |-> bothOk = Cardinality(DOMAIN embDir),
                    sql |-> sql, vec |-> vec]
    /\ UNCHANGED <<loadOrder, futures>>

\* the load phase is entered again
LoadAgain ==
    /\ pc = "finish"
    /\ runs < MaxRuns
    /\ runs' = runs + 1
    /\ pc' = "pre_load"
    /\ UNCHANGED <<saveHist, loadHist, ckVars, cur, result, idx,
                   search_results, processed_local, todo, success_count,
                   fsVars, storeVars, executed, fetched, loaded, resumed,
                   crashStage, torn>>

NextReplay ==
    \/ ReplayBegin
    \/ ReplayFile
    \/ ReplayEnd
    \/ LoadAgain

InitReplay ==
    /\ now = 0
    /\ state = FreshState(0)
    /\ canon = [p \in Pids |-> NoFile]
    /\ tmpf = [p \in Pids |-> NoFile]
    /\ pc = "pre_load" /\ cur = "load" /\ result = "none" /\ idx = 0
    /\ search_results = <<>> /\ processed_local = {} /\ todo = {}
    /\ success_count = 0
    /\ pages = [u \in {SearchUrl} \cup Urls |-> "none"]
    /\ rawDir = EmptyDir /\ cleanDir = EmptyDir
    /\ embDir = [id \in {ItemId(u) : u \in Urls} |->
                    FullDoc(CHOOSE u \in Urls : ItemId(u) = id)]
    /\ down = {} /\ flaky = FALSE
    /\ \E prior \in PriorStores : sql = prior.sql /\ vec = prior.vec
    /\ runs = 1 /\ executed = <<>> /\ fetched = <<>>
    /\ loaded = FreshState(0) /\ resumed = FALSE /\ crashStage = None
    /\ torn = FALSE
    /\ faults = 0 /\ partial = {} /\ partialPrev = {}
    /\ lastLoad = NoLoad
    /\ bothOk = 0
    /\ failed = {}
    /\ loadOrder = <<>> /\ prevPass = NoPass
    /\ futures = NoFutures
    /\ damaged = FALSE /\ ops = 0
    /\ lastCall = NoCall
    /\ wk = [w \in Workers |-> IdleWorker]

SpecReplay == InitReplay /\ [][NextReplay]_vars

(***************************************************************************)
(* Properties of the stage runner.                                         *)
(***************************************************************************)
IsPrefix(s, t) == Len(s) <= Len(t) /\ SubSeq(t, 1, Len(s)) = s

\* the stages to run for the current_stage found in the checkpoint
ExpectedStages(current_stage) ==
    IF current_stage \in {None, "extract"}
    THEN <<"extract", "transform", "load">>
    ELSE IF current_stage = "transform" THEN <<"transform", "load">>
    ELSE IF current_stage = "load" THEN <<"load">>
    ELSE <<>>

\* C1: the stage bodies a run enters are, in order, those the checkpoint's
\* current_stage at the start calls for (none and extract: extract,
\* transform, load; transform: transform, load; load: load): at every moment
\* the bodies entered so far are the first ones of that list, and a run that
\* returns True has entered all of them.
C1_StagesFollowCheckpoint ==
    /\ IsPrefix(executed, ExpectedStages(loaded.current_stage))
    /\ result = "True" => executed = ExpectedStages(loaded.current_stage)

C1_Witness ==
    /\ result = "True"
    /\ resumed
    /\ loaded.current_stage = "load"
    /\ executed = <<"load">>

\* C3: a run that loaded processed_ids = {a, b} with current_stage extract and
\* whose search returns a, b, c calls the content fetch for c only, and
\* afterwards current_stage is transform.
C3_FetchesOnlyUnprocessed ==
    (/\ resumed
     /\ loaded.current_stage = "extract"
     /\ SeqToSet(loaded.processed_ids) =
           {_generate_legislation_id(SearchRow(1)),
            _generate_legislation_id(SearchRow(2))}
     /\ search_results = <<SearchRow(1), SearchRow(2), SearchRow(3)>>
     /\ pc \in {"pre_transform", "transform_embed"})
    => /\ fetched = <<3>>
       /\ pc = "transform_embed" => state.current_stage = "transform"

RECURSIVE SqlAfter(_)
SqlAfter(S) ==
    IF S = {} THEN EmptySql
    ELSE LET u == CHOOSE x \in S : TRUE
         IN  store_legislation(SqlAfter(S \ {u}), FullDoc(u), "none").sql

\* the vector stores an uninterrupted load of the documents of S into the
\* empty store can give, one for every order of the files
RECURSIVE VecAfter(_)
VecAfter(S) ==
    IF S = {} THEN {EmptyVec}
    ELSE {store_embeddings(v, FullDoc(u), "none", 0).vec :
             u \in S, v \in UNION {VecAfter(S \ {x}) : x \in S}}

\* C2: a run that returns True, restarted after a kill or not, leaves in its
\* checkpoint the processed_ids set, and in the two stores the contents, of
\* one uninterrupted run over all items that can be fetched.
C2_ResumeEqualsUninterrupted ==
    (pc = "done" /\ result = "True") =>
        LET S == Urls \ down
        IN  /\ SeqToSet(Durable.data.processed_ids) =
                  {_generate_legislation_id(SearchRow(u)) : u \in S}
            /\ sql = SqlAfter(S)
            /\ vec \in VecAfter(S)

\* the same, for the runs in which no kill left a cache file torn
C2_HoldsWithoutTornCache == torn \/ C2_ResumeEqualsUninterrupted

\* C9: the key of a vector point is an injective function of (document id,
\* section index, chunk index): two entries of the embedded files with
\* different triples have different keys.
C9_PointIdInjective ==
    \A d1 \in DOMAIN embDir, d2 \in DOMAIN embDir :
        \A k1 \in DOMAIN embDir[d1].embeddings,
           k2 \in DOMAIN embDir[d2].embeddings :
            LET e1 == embDir[d1].embeddings[k1]
                e2 == embDir[d2].embeddings[k2]
            IN  <<d1, e1.section_idx, e1.chunk_idx>>
                    # <<d2, e2.section_idx, e2.chunk_idx>>
                => PointId(d1, e1) # PointId(d2, e2)

(***************************************************************************)
(* Properties of the checkpoint files.                                     *)
(***************************************************************************)
\* C6: whatever the step at which the process is killed during save, the
\* canonical checkpoint file is never a partly written file: every step of
\* the manager leaves it as it was or replaces it by the complete snapshot
\* of the state dict, and no canonical file is one json.load rejects unless
\* it was damaged from outside.
C6_CanonicalNeverPartial ==
    /\ [](~damaged => \A p \in Pids : canon[p].kind # "torn")
    /\ [][damaged' = damaged =>
             \/ canon' = canon
             \/ /\ pc = "save_dumped"
                /\ canon' = [canon EXCEPT ![state.pipeline_id] =
                                JsonFile(state)]]_vars

\* the process was killed with the temporary file half written while the
\* canonical file still holds the snapshot saved before
C6_Witness ==
    /\ pc = "crashed"
    /\ ~damaged
    /\ tmpf[state.pipeline_id].kind = "torn"
    /\ Durable.kind = "json"
    /\ Durable.data # state

\* C7: the load made by a new process always yields a state dict: from the
\* temporary file when json.load rejects the canonical file and accepts the
\* temporary one, and the fresh state when it rejects both or the temporary
\* file is absent; the files are left as they are and the process starts.
C7_LoadFallsBack ==
    [][(pc \in {"done", "crashed"} /\ pc' = "start") =>
          /\ canon[now'].kind = "torn" /\ tmpf[now'].kind = "json" =>
                /\ state' = tmpf[now'].data
                /\ resumed'
          /\ canon[now'].kind = "torn" /\ tmpf[now'].kind # "json" =>
                /\ state' = FreshState(now')
                /\ ~resumed'
          /\ canon' = canon /\ tmpf' = tmpf]_vars

\* a process started over a damaged canonical file and took the state of
\* the temporary file
C7_Witness ==
    /\ pc = "start"
    /\ damaged
    /\ resumed
    /\ Durable.kind = "torn"
    /\ tmpf[state.pipeline_id].kind = "json"
    /\ state = tmpf[state.pipeline_id].data
    /\ state.current_stage # None

(***************************************************************************)
(* Properties of the dual-store load.                                      *)
(***************************************************************************)
\* the points of the vector store that belong to document d
PointsOf(d) == {p \in DOMAIN vec : vec[p].legislation_id = d}

\* C8: whatever the two stores hold, loading an embedded file twice in
\* succession, every write succeeding, leaves the structured store and the
\* vector store as loading it once leaves them.
C8_LoadTwiceIsLoadOnce ==
    \A d \in DOMAIN embDir :
        LET sql1 == store_legislation(sql, embDir[d], "none")
            vec1 == store_embeddings(vec, embDir[d], "none", 0)
            sql2 == store_legislation(sql1.sql, embDir[d], "none")
            vec2 == store_embeddings(vec1.vec, embDir[d], "none", 0)
        IN  (sql1.ok /\ vec1.ok) => /\ sql2.ok /\ vec2.ok
                                    /\ sql2.sql = sql1.sql
                                    /\ vec2.vec = vec1.vec

\* the repeated load happened in a store that also holds another document
C8_Witness ==
    /\ lastLoad.again
    /\ Len(lastLoad.file.embeddings) > UpsertBatch
    /\ \E p \in DOMAIN vec : vec[p].legislation_id # lastLoad.file.id

\* C10: a load whose structured write succeeded and whose vector write
\* failed part-way is not counted as loaded; and at the end of a later load
\* pass that loaded every file with success the vector store holds one point
\* per chunk of that document.
C10_PartialLoadRetried ==
    /\ (lastLoad.sql_ok /\ ~lastLoad.vec_ok) => ~lastLoad.counted
    /\ (/\ pc = "finish"
        /\ RunsLoad(cur)
        /\ success_count = Cardinality(DOMAIN embDir)) =>
          \A d \in partialPrev :
              Cardinality(PointsOf(d)) = Len(embDir[d].embeddings)

\* C11: in the load phase each loader is called for every file whatever the
\* other returned (a file whose structured write failed still has its points
\* written, and one whose vector write failed still has its row written), a
\* file is counted only when both returned True, and loaded_count after the
\* phase is the number of files of the pass for which both returned True.
C11_CountsOnlyFullLoads ==
    /\ lastLoad.sql_ok => lastLoad.file.id \in sql.legislation
    /\ lastLoad.vec_ok =>
          PointsOf(lastLoad.file.id) =
              {PointId(lastLoad.file.id, lastLoad.file.embeddings[k]) :
                  k \in DOMAIN lastLoad.file.embeddings}
    /\ lastLoad.counted <=> (lastLoad.sql_ok /\ lastLoad.vec_ok)
    /\ (pc \in {"load_loop", "finish"} /\ RunsLoad(cur)) =>
          success_count = bothOk
    /\ (pc = "finish" /\ RunsLoad(cur)) =>
          /\ StatHas(state.stats, "loaded_count")
          /\ StatGet(state.stats, "loaded_count") = bothOk

\* a pass ended in which one file had its points written although its
\* structured write failed, and only the other file was counted
C11_Witness ==
    /\ pc = "finish"
    /\ RunsLoad(cur)
    /\ bothOk = 1
    /\ Cardinality(DOMAIN embDir) = 2
    /\ \E d \in DOMAIN embDir : d \notin sql.legislation /\ PointsOf(d) # {}

(***************************************************************************)
(* Properties of the stage and of the checkpoint operations.               *)
(***************************************************************************)
\* the place of a stage in the order none < extract < transform < load <
\* complete
StageRank(stage) ==
    IF stage = None THEN 0
    ELSE CHOOSE k \in 1 .. Len(Stages) : Stages[k] = stage

\* C12: inside one run current_stage never moves backwards in the order
\* none < extract < transform < load < complete, and a run that returns True
\* ends with current_stage = complete.
C12_StageNeverRegresses ==
    /\ [](result = "True" => state.current_stage = "complete")
    /\ [][runs' = runs =>
             StageRank(state'.current_stage)
                 >= StageRank(state.current_stage)]_vars

\* a run resumed at transform went through load to complete
C12_Witness ==
    /\ result = "True"
    /\ resumed
    /\ loaded.current_stage = "transform"
    /\ executed = <<"transform", "load">>
    /\ state.current_stage = "complete"

\* the number of times id occurs in the list ids
RECURSIVE Occurrences(_, _)
Occurrences(ids, id) ==
    IF ids = <<>> THEN 0
    ELSE (IF Head(ids) = id THEN 1 ELSE 0) + Occurrences(Tail(ids), id)

\* C13: marking ids that are all in processed_ids already, one by one or as
\* a batch, leaves processed_ids and items_processed as they were; and an id
\* that was in processed_ids is never added a second time by a mark.
C13_MarkingIsIdempotent ==
    lastCall.op \in {"mark_processed", "mark_batch_processed"} =>
        LET present == SeqToSet(lastCall.before.processed_ids)
        IN  /\ SeqToSet(lastCall.ids) \subseteq present =>
                  /\ state.processed_ids = lastCall.before.processed_ids
                  /\ state.items_processed =
                        lastCall.before.items_processed
            /\ \A id \in present :
                  Occurrences(state.processed_ids, id) =
                      Occurrences(lastCall.before.processed_ids, id)

\* mark_processed was called for an id marked before
C13_Witness ==
    /\ lastCall.op = "mark_processed"
    /\ lastCall.ids[1] \in SeqToSet(lastCall.before.processed_ids)
    /\ lastCall.before.items_processed > 0
    /\ state = lastCall.before

\* C14: when several threads have called mark_processed and record_error
\* at the same time, every id they marked is in processed_ids, no id is in
\* it twice, and items_processed is the number of distinct ids marked.
C14_ConcurrentMarksAreSafe ==
    (\A w \in Workers : wk[w].pc = "done") =>
        LET marked == {wk[w].id : w \in Workers} \ {NoId}
        IN  /\ marked \subseteq SeqToSet(state.processed_ids)
            /\ \A id \in marked : Occurrences(state.processed_ids, id) = 1
            /\ state.items_processed = Cardinality(marked)

\* C15: when run() has returned True the durable snapshot has current_stage
\* complete and holds the stats total_duration and completed_at, whatever
\* items_processed is.
C15_CompletionIsDurable ==
    result = "True" =>
        /\ Durable.kind = "json"
        /\ Durable.data.current_stage = "complete"
        /\ StatHas(Durable.data.stats, "total_duration")
        /\ StatHas(Durable.data.stats, "completed_at")

\* the stages run so far by the current run
Ran(stage) == stage \in SeqToSet(executed)

\* C16: an error raised while one item is handled (fetched in extract,
\* cleaned or embedded in transform, stored in load) is confined to the
\* item: every other item of the stage is handled, the fetched ones are
\* marked processed, and the step in which the item fails neither ends the
\* run nor records an error.
C16_ItemErrorsAreConfined ==
    /\ [](/\ (pc = "pre_transform" /\ Ran("extract")) =>
                \A k \in DOMAIN search_results :
                   LET id == _generate_legislation_id(search_results[k])
                   IN  <<"extract", id>> \notin failed =>
                          /\ id \in DOMAIN rawDir
                          /\ is_processed(state, id)
          /\ pc = "transform_embed" =>
                \A id \in DOMAIN rawDir :
                   <<"clean", id>> \notin failed =>
                      /\ id \in DOMAIN cleanDir
                      /\ cleanDir[id] = clean(rawDir[id])
          /\ (pc = "pre_load" /\ Ran("transform")) =>
                \A id \in DOMAIN cleanDir :
                   <<"embed", id>> \notin failed =>
                      /\ id \in DOMAIN embDir
                      /\ embDir[id] = generate_embeddings(cleanDir[id])
          /\ (pc = "finish" /\ Ran("load")) =>
                /\ \A d \in DOMAIN embDir :
                      <<"load", d>> \notin failed => d \in sql.legislation
                /\ success_count =
                      Cardinality({d \in DOMAIN embDir :
                                      <<"load", d>> \notin failed}))
    /\ [][~(failed' \subseteq failed) =>
             /\ pc' \in {"extract_loop", "pre_transform", "transform_embed",
                         "pre_load", "load_loop"}
             /\ result' = "none"
             /\ state'.error = state.error]_vars

C16_Witness ==
    /\ result = "True"
    /\ <<"extract", ItemId(NItems)>> \in failed
    /\ <<"embed", ItemId(1)>> \in failed
    /\ ItemId(1) \notin DOMAIN embDir
    /\ ItemId(2) \in DOMAIN embDir
    /\ ItemId(2) \in sql.legislation
    /\ SeqToSet(state.processed_ids) = {ItemId(1), ItemId(2)}
    /\ state.error = <<>>

\* the orders in which the files of a directory can be listed
Orders(dir) ==
    {o \in [1 .. Cardinality(DOMAIN dir) -> DOMAIN dir] :
        \A i, j \in DOMAIN o : o[i] = o[j] => i = j}

RECURSIVE LoadPhase(_, _, _, _)
\* the stores after the file loop of _run_load_phase has loaded the files of
\* dir in the given order, every write succeeding
LoadPhase(s, v, dir, order) ==
    IF order = <<>> THEN [sql |-> s, vec |-> v]
    ELSE LoadPhase(store_legislation(s, dir[Head(order)], "none").sql,
                   store_embeddings(v, dir[Head(order)], "none", 0).vec,
                   dir, Tail(order))

\* C17: whatever the stores hold when a file loop begins, running the load
\* phase over the embedded files twice in the same order, every write
\* succeeding, leaves both stores as running it once leaves them (and so
\* does any number of repetitions); and a load phase that repeats the one
\* before it in the same order, every write of both succeeding, ends with
\* the stores as the one before left them.
C17_ReplayedLoadConverges ==
    /\ (pc = "load_loop" /\ todo = DOMAIN embDir) =>
          \A order \in Orders(embDir) :
             LET once == LoadPhase(sql, vec, embDir, order)
                 twice == LoadPhase(once.sql, once.vec, embDir, order)
             IN  twice = once
    /\ (/\ pc = "load_loop"
        /\ todo = {}
        /\ prevPass.all
        /\ bothOk = Cardinality(DOMAIN embDir)
        /\ prevPass.order = loadOrder) =>
          sql = prevPass.sql /\ vec = prevPass.vec

\* the load phase was run again over the three files in the order of the
\* first time
C17_Witness ==
    /\ pc = "load_loop"
    /\ todo = {}
    /\ runs = 2
    /\ prevPass.all
    /\ prevPass.order = loadOrder
    /\ Len(loadOrder) = NItems
    /\ bothOk = NItems
    /\ \E p \in DOMAIN vec : vec[p].legislation_id # loadOrder[NItems]

C20_ProcessedIdsOnlyGrow ==
    [][(lastCall'.op \notin {"reset", "reload"} /\ runs' = runs) =>
          SeqToSet(state.processed_ids) \subseteq
             SeqToSet(state'.processed_ids)]_vars

\* a batch was marked in a manager that already held an id of the batch
C20_Witness ==
    /\ lastCall.op = "mark_batch_processed"
    /\ lastCall.before.processed_ids # <<>>
    /\ SeqToSet(lastCall.before.processed_ids) \subseteq
          SeqToSet(state.processed_ids)
    /\ Len(state.processed_ids) > Len(lastCall.before.processed_ids)
    /\ \E k \in DOMAIN lastCall.ids :
          lastCall.ids[k] \in SeqToSet(lastCall.before.processed_ids)

\* C21: when run has returned, the exit status of the process is 0 exactly
\* when run returned True, and it is not 0 when run returned False, whether
\* the databases could not be initialised or a stage raised.
C21_ExitStatusReflectsSuccess ==
    pc = "done" =>
        /\ result \in {"True", "False"}
        /\ ExitStatus(result = "True") = 0 <=> result = "True"
        /\ result = "False" => ExitStatus(result = "True") # 0

\* run returned False because the databases could not be initialised
C21_Witness ==
    /\ pc = "done"
    /\ result = "False"
    /\ executed = <<>>
    /\ state.error = <<>>
    /\ ExitStatus(result = "True") = 1

\* C22: at the end of a load phase in which both writes of every file
\* succeeded, the vector store holds for every document loaded one point per
\* chunk of the document.
C22_OnePointPerChunk ==
    (/\ pc = "finish"
     /\ Ran("load")
     /\ success_count = Cardinality(DOMAIN embDir)) =>
        \A d \in DOMAIN embDir :
            Cardinality(PointsOf(d)) = Len(embDir[d].embeddings)

\* the versions of an embedded document that keep its first k sections, for
\* every k from none to all of them
Versions(doc) ==
    {generate_embeddings([id |-> doc.id,
                          content |-> SubSeq(doc.content, 1, k)]) :
        k \in 0 .. Len(doc.content)}

\* the section rows of document d in a structured store
SectionsOf(s, d) == {r \in s.sections : r[1] = d}

\* C23: whatever the structured store holds, after store_legislation has
\* returned True for a version of a document, the section rows of the
\* document are those of this version, indices 0 .. n-1, also when the
\* version has fewer sections than the rows stored or none.
C23_SectionRowsAreCurrent ==
    \A d \in DOMAIN embDir :
        \A doc \in Versions(embDir[d]) :
            LET stored == store_legislation(sql, doc, "none")
            IN  stored.ok =>
                   SectionsOf(stored.sql, d) =
                      {<<d, n - 1>> : n \in 1 .. Len(doc.content)}

\* the points of document d in a vector store
PointsIn(v, d) == {p \in DOMAIN v : v[p].legislation_id = d}

\* C24: whatever the vector store holds, after store_embeddings has returned
\* True for a version of a document, the points of the document are those of
\* the chunks of this version, also when the rows stored come from a version
\* with more chunks and also when the delete call fails.
C24_PointsAreCurrent ==
    \A d \in DOMAIN embDir :
        \A doc \in Versions(embDir[d]), fault \in {"none", "delete"} :
            LET stored == store_embeddings(vec, doc, fault, 0)
            IN  stored.ok =>
                   PointsIn(stored.vec, d) =
                      {PointId(d, doc.embeddings[k]) :
                          k \in DOMAIN doc.embeddings}

\* C25: when the load stage runs again in a process that resumed at stage
\* load, a document that is in processed_ids and whose load by the earlier
\* process succeeded in both stores is not among the files still to load.
C25_LoadedItemsSkipped ==
    (pc = "load_loop" /\ resumed /\ loaded.current_stage = "load") =>
        \A d \in todo :
            ~(/\ is_processed(state, d)
              /\ d \in sql.legislation
              /\ <<"load", d>> \notin failed
              /\ PointsOf(d) # {})

\* C26: after any calls made to a manager that began fresh, processed_ids
\* holds no id twice and items_processed is the number of distinct ids in
\* it, also after mark_batch_processed was passed a list with the same new
\* id twice.
C26_IdsDistinctAndCounted ==
    /\ \A id \in SeqToSet(state.processed_ids) :
          Occurrences(state.processed_ids, id) = 1
    /\ state.items_processed = Cardinality(SeqToSet(state.processed_ids))

\* C27: when run has returned False, the error field of the state dict is
\* set and the checkpoint file of the pipeline holds it.
C27_FailureIsRecorded ==
    result = "False" =>
        /\ state.error # <<>>
        /\ Durable.kind = "json"
        /\ Durable.data.error = state.error

\* C28: when the page of every item is unavailable, so that no fetch of the
\* extract stage succeeds, the run does not go on to transform or load,
\* current_stage stays extract, and run returns False with the error set.
C28_ExtractAbortsWhenAllFail ==
    (Urls \subseteq down /\ Ran("extract")) =>
        /\ ~Ran("transform")
        /\ ~Ran("load")
        /\ state.current_stage = "extract"
        /\ pc = "done" => (result = "False" /\ state.error # <<>>)

\* LegislationSearchCLI.search, line 99, and VectorLoader.search, line 245:
\* the identifier a search hit carries is the key of the point, an integer;
\* written like the embedding_id column it is one number and no "s" or "c"
SearchHitId(p) == <<p>>

\* C29: for every chunk held by both stores, the embedding_id of its
\* embedding-reference row is the identifier of its vector point, so that a
\* search hit finds its row.
C29_ReferenceJoinsPoint ==
    \A p \in DOMAIN vec, r \in sql.embeddings :
        (/\ r.legislation_id = vec[p].legislation_id
         /\ r.section_idx = vec[p].section_idx
         /\ r.chunk_idx = vec[p].chunk_idx) =>
            r.embedding_id = SearchHitId(p)

\* the ids of processed_ids
ProcessedSet(st) == SeqToSet(get_processed_ids(st))

\* C30: in the extract stage an id enters processed_ids only in the step
\* whose fetch returned the page and left the raw file of that id written; an
\* item whose latest fetch failed is not in processed_ids, an item whose fetch
\* was cut short by a kill is not in processed_ids when the process dies, and
\* an item that is not in processed_ids is fetched when the loop reaches it.
C30_MarkedOnlyAfterRawWritten ==
    /\ [][pc = "extract_loop" =>
            LET item == search_results[idx + 1]
                id == _generate_legislation_id(item)
                fresh == ProcessedSet(state') \ ProcessedSet(state)
            IN  /\ fresh \subseteq {id}
                /\ fresh # {} =>
                      /\ ~_fetch_with_cache(item.url, pages, down).raised
                      /\ pages'[item.url] # "none"
                      /\ id \in DOMAIN rawDir'
                      /\ rawDir'[id].url = item.url
                /\ (pc' = "crashed" /\ pages' # pages) =>
                      id \notin ProcessedSet(state')
                /\ (idx' = idx + 1 /\ id \notin ProcessedSet(state)) =>
                      fetched' = Append(fetched, item.url)]_vars
    /\ [](\A k \in Urls :
             LET id == _generate_legislation_id(SearchRow(k))
             IN  <<"extract", id>> \in failed =>
                    id \notin ProcessedSet(state))

\* a resumed run fetched again the item whose first fetch was cut short and
\* has marked it, while the item whose fetch failed is still unmarked
C30_Witness ==
    /\ resumed
    /\ \E k \in 1 .. NItems :
          /\ pages[SearchRow(k).url] = "torn"
          /\ SearchRow(k).url \in SeqToSet(fetched)
          /\ _generate_legislation_id(SearchRow(k)) \in ProcessedSet(state)
          /\ _generate_legislation_id(SearchRow(k)) \in DOMAIN rawDir
    /\ \E k \in Urls :
          LET id == _generate_legislation_id(SearchRow(k))
          IN  <<"extract", id>> \in failed /\ id \notin ProcessedSet(state)

(***************************************************************************)
(* The checkpoint manager called with mark_processed and                   *)
(* mark_batch_processed only, from a fresh start.                          *)
(***************************************************************************)
NextMarks ==
    \/ OpMarkProcessed
    \/ OpMarkBatchProcessed

SpecMarks == InitSave /\ [][NextMarks]_vars

\* the ids of processed_ids that the canonical checkpoint file does not hold
MissingIds ==
    ProcessedSet(state) \
        (IF Durable.kind = "json" THEN ProcessedSet(Durable.data) ELSE {})

\* C31: after any sequence of mark_processed and mark_batch_processed calls,
\* fewer than Interval ids of the in-memory processed_ids are missing from
\* the checkpoint file.
C31_FewerThanIntervalUnsaved == Cardinality(MissingIds) < Interval

(***************************************************************************)
(* The load phase taken alone and entered again, with stores that can      *)
(* refuse a write, over embedded files of which one may come from a page   *)
(* in which the cleaner found no section.                                  *)
(***************************************************************************)
\* the embedded file of the document behind url u when the cleaner found no
\* section in its page: content and embeddings are empty lists
BareDoc(u) ==
    generate_embeddings(clean([id |-> _generate_legislation_id(SearchRow(u)),
                               url |-> u, html_content |-> "torn"]))

NextHeal ==
    \/ BeginLoad
    \/ LoadFile
    \/ EndLoad
    \/ LoadAgain

InitHeal ==
    /\ now = 0
    /\ state = FreshState(0)
    /\ canon = [p \in Pids |-> NoFile]
    /\ tmpf = [p \in Pids |-> NoFile]
    /\ pc = "pre_load" /\ cur = "load" /\ result = "none" /\ idx = 0
    /\ search_results = <<>> /\ processed_local = {} /\ todo = {}
    /\ success_count = 0
    /\ pages = [u \in {SearchUrl} \cup Urls |-> "none"]
    /\ rawDir = EmptyDir /\ cleanDir = EmptyDir
    /\ \E bare \in SUBSET {NItems} :
          embDir = [id \in {ItemId(u) : u \in Urls} |->
                       LET u == CHOOSE v \in Urls : ItemId(v) = id
                       IN  IF u \in bare THEN BareDoc(u) ELSE FullDoc(u)]
    /\ down = {} /\ flaky = TRUE
    /\ sql = EmptySql /\ vec = EmptyVec
    /\ runs = 1 /\ executed = <<>> /\ fetched = <<>>
    /\ loaded = FreshState(0) /\ resumed = FALSE /\ crashStage = None
    /\ torn = FALSE
    /\ faults = 0 /\ partial = {} /\ partialPrev = {}
    /\ lastLoad = NoLoad
    /\ bothOk = 0
    /\ failed = {}
    /\ loadOrder = <<>> /\ prevPass = NoPass
    /\ futures = NoFutures
    /\ damaged = FALSE /\ ops = 0
    /\ lastCall = NoCall
    /\ wk = [w \in Workers |-> IdleWorker]

SpecHeal == InitHeal /\ [][NextHeal]_vars

\* C32: a document whose latest load was reported as not fully loaded is, on
\* its next load in which both stores accept every write, reported fully
\* loaded (both loaders return True) and counted; loaded_count after the pass
\* is the count.
C32_PartialLoadHeals ==
    /\ [][(pc = "load_loop" /\ todo' # todo /\ faults' = faults) =>
            \A d \in todo \ todo' :
                <<"load", d>> \in failed =>
                    /\ lastLoad'.sql_ok /\ lastLoad'.vec_ok
                    /\ <<"load", d>> \notin failed'
                    /\ success_count' = success_count + 1]_vars
    /\ []((pc = "finish" /\ Ran("load")) =>
             StatGet(state.stats, "loaded_count") = success_count)

max_workers == NWorkers

Tasks(kind) == {t \in DOMAIN futures : t[1] = kind}
Running == {t \in DOMAIN futures : futures[t] = "running"}

\* ThreadPoolExecutor: a queued task is taken when a thread is free
ThreadFreeAlways(running) == TRUE
ThreadFree(running) == running < max_workers

\* the variables no step of the transform phase changes
poolFrame == <<saveHist, tmpf, now, cur, result, idx, search_results,
               processed_local, todo, success_count, pages, rawDir, down,
               flaky, storeVars, runs, fetched, loaded, resumed, crashStage,
               torn, partial, partialPrev, lastLoad, bothOk, loadOrder,
               prevPass>>

\* run, lines 172-173, and _run_transform_phase, lines 296-299: the stage is
\* recorded and the raw directory listed
PoolBegin ==
    /\ pc = "pre_transform"
    /\ LET cm1 == update_stage(CM, "transform")
       IN  /\ state' = cm1.st
           /\ canon' = cm1.cn
    /\ executed' = Append(executed, "transform")
    /\ futures' = NoFutures
    /\ pc' = "clean_submit"
    /\ UNCHANGED <<poolFrame, cleanDir, embDir, faults, failed>>

\* lines 304 and 319: executor.submit for the next file of the listing; after
\* the last one the main thread enters the as_completed loop
Submit(kind, dir, here, next) ==
    /\ pc = here
    /\ IF DOMAIN dir \subseteq {t[2] : t \in Tasks(kind)}
       THEN /\ pc' = next
            /\ UNCHANGED futures
       ELSE /\ \E id \in DOMAIN dir \ {t[2] : t \in Tasks(kind)} :
                  futures' = [t \in DOMAIN futures \cup {<<kind, id>>} |->
                                 IF t = <<kind, id>> THEN "queued"
                                 ELSE futures[t]]
            /\ UNCHANGED pc
    /\ UNCHANGED <<poolFrame, state, canon, executed, cleanDir, embDir,
                   faults, failed>>

SubmitClean == Submit("clean", rawDir, "clean_submit", "clean_wait")

\* lines 316-319: the clean directory is listed when the loop over the
\* cleaning futures has ended
SubmitEmbed == Submit("embed", cleanDir, "embed_submit", "embed_wait")

\* the positions of the main thread inside the with block of line 301, its
\* exit included: the threads of the pool are alive
InPool == {"clean_submit", "clean_wait", "embed_submit", "embed_wait",
           "pool_exit", "cancel_exit"}

\* a thread of the pool takes a queued task
TaskStart ==
    /\ pc \in InPool
    /\ ThreadFree(Cardinality(Running))
    /\ \E t \in DOMAIN futures :
          /\ futures[t] = "queued"
          /\ futures' = [futures EXCEPT ![t] = "running"]
    /\ UNCHANGED <<poolFrame, state, canon, pc, executed, cleanDir, embDir,
                   faults, failed>>

\* _clean_legislation or _generate_embeddings returns in its thread: the
\* output file is written, or the task raised and wrote nothing
TaskEnd ==
    /\ pc \in InPool
    /\ \E t \in Running, ok \in BOOLEAN :
          /\ ~ok => (flaky /\ faults < MaxFaults)
          /\ futures' = [futures EXCEPT ![t] = "done"]
          /\ faults' = IF ok THEN faults ELSE faults + 1
          /\ failed' = Handled(failed, t[1], {t[2]},
                               IF ok THEN {} ELSE {t[2]})
          /\ cleanDir' = IF t[1] = "clean"
                         THEN CleanAll([x \in {t[2]} |-> rawDir[x]],
                                       cleanDir, IF ok THEN {} ELSE {t[2]})
                         ELSE cleanDir
          /\ embDir' = IF t[1] = "embed"
                       THEN EmbedAll([x \in {t[2]} |-> cleanDir[x]],
                                     embDir, IF ok THEN {} ELSE {t[2]})
                       ELSE embDir
    /\ UNCHANGED <<poolFrame, state, canon, pc, executed>>

\* the loops of lines 306-313 and 321-328: as_completed yields a finished
\* future and its result is read; the loop ends when every future of the
\* dict was yielded
Collect(kind, here, next) ==
    /\ pc = here
    /\ IF \A t \in Tasks(kind) : futures[t] = "collected"
       THEN /\ pc' = next
            /\ UNCHANGED futures
       ELSE /\ \E t \in Tasks(kind) :
                  /\ futures[t] = "done"
                  /\ futures' = [futures EXCEPT ![t] = "collected"]
            /\ UNCHANGED pc
    /\ UNCHANGED <<poolFrame, state, canon, executed, cleanDir, embDir,
                   faults, failed>>

CollectClean == Collect("clean", "clean_wait", "embed_submit")
CollectEmbed == Collect("embed", "embed_wait", "pool_exit")

\* the end of the with block, line 301: shutdown(wait=True) returns when no
\* task is queued or running, and _run_transform_phase returns
PoolExit ==
    /\ pc = "pool_exit"
    /\ \A t \in DOMAIN futures : futures[t] \in {"done", "collected"}
    /\ pc' = "pre_load"
    /\ UNCHANGED <<poolFrame, state, canon, executed, cleanDir, embDir,
                   futures, faults, failed>>

NextPool ==
    \/ PoolBegin
    \/ SubmitClean
    \/ SubmitEmbed
    \/ TaskStart
    \/ TaskEnd
    \/ CollectClean
    \/ CollectEmbed
    \/ PoolExit

\* the raw file of the document behind url u
RawDoc(u) ==
    [id |-> _generate_legislation_id(SearchRow(u)), url |-> u,
     html_content |-> "full"]

InitPool ==
    /\ now = 0
    /\ state = FreshState(0)
    /\ canon = [p \in Pids |-> NoFile]
    /\ tmpf = [p \in Pids |-> NoFile]
    /\ pc = "pre_transform" /\ cur = "transform" /\ result = "none"
    /\ idx = 0
    /\ search_results = <<>> /\ processed_local = {} /\ todo = {}
    /\ success_count = 0
    /\ pages = [u \in {SearchUrl} \cup Urls |-> "none"]
    /\ rawDir = [id \in {ItemId(u) : u \in Urls} |->
                    RawDoc(CHOOSE u \in Urls : ItemId(u) = id)]
    /\ cleanDir = EmptyDir /\ embDir = EmptyDir
    /\ down = {} /\ flaky = TRUE
    /\ sql = EmptySql /\ vec = EmptyVec
    /\ runs = 1 /\ executed = <<>> /\ fetched = <<>>
    /\ loaded = FreshState(0) /\ resumed = FALSE /\ crashStage = None
    /\ torn = FALSE
    /\ faults = 0 /\ partial = {} /\ partialPrev = {}
    /\ lastLoad = NoLoad
    /\ bothOk = 0
    /\ failed = {}
    /\ loadOrder = <<>> /\ prevPass = NoPass
    /\ futures = NoFutures
    /\ damaged = FALSE /\ ops = 0
    /\ lastCall = NoCall
    /\ wk = [w \in Workers |-> IdleWorker]

SpecPool == InitPool /\ [][NextPool]_vars

\* C34: in the transform stage at most max_workers tasks run at the same
\* time, an embedding task exists only when every cleaning task has finished
\* and was collected, and the stage has returned only when every submitted
\* task has finished.
C34_PoolBoundedAndOrdered ==
    /\ Cardinality(Running) <= max_workers
    /\ Tasks("embed") # {} =>
          /\ {t[2] : t \in Tasks("clean")} = DOMAIN rawDir
          /\ \A t \in Tasks("clean") : futures[t] = "collected"
    /\ (pc = "pre_load" /\ Ran("transform")) =>
          /\ {t[2] : t \in Tasks("clean")} = DOMAIN rawDir
          /\ {t[2] : t \in Tasks("embed")} = DOMAIN cleanDir
          /\ \A t \in DOMAIN futures : futures[t] \in {"done", "collected"}

\* max_workers embedding tasks run while a third one is queued
C34_Witness ==
    /\ Cardinality(Running) = max_workers
    /\ Running \subseteq Tasks("embed")
    /\ \E t \in Tasks("embed") : futures[t] = "queued"
    /\ \A t \in Tasks("clean") : futures[t] = "collected"

\* the extract loop is running or has just ended
InExtract == pc = "extract_loop" \/ (pc = "pre_transform" /\ Ran("extract"))

\* C35: the extract stage handles the N search results in their order, each
\* at most once in a run, in ceil(N / B) batches of B consecutive results (the
\* last one shorter): the batch recorded while result number k is handled is
\* batch (k - 1) div B + 1 with its bounds, so that a batch is opened only
\* when every result of the batch before it was handled.
C35_BatchesPartitionInOrder ==
    /\ [](InExtract =>
            LET n == Len(search_results)
                b == (idx - 1) \div BatchSize
            IN  /\ fetched = [k \in 1 .. idx |-> search_results[k].url]
                /\ idx >= 1 =>
                      /\ state.current_batch # <<>>
                      /\ state.current_batch[1].batch_index = b + 1
                      /\ state.current_batch[1].start_index = b * BatchSize
                      /\ state.current_batch[1].end_index =
                            (IF (b + 1) * BatchSize <= n
                             THEN (b + 1) * BatchSize ELSE n)
                      /\ state.current_batch[1].batch_size =
                            state.current_batch[1].end_index
                                - state.current_batch[1].start_index
                /\ (pc = "pre_transform" /\ n > 0) =>
                      /\ idx = n
                      /\ state.current_batch[1].batch_index =
                            (n + BatchSize - 1) \div BatchSize
                      /\ state.current_batch[1].end_index = n)
    /\ [][(pc = "extract_loop" /\ idx' = idx + 1) =>
            /\ state'.current_batch[1].start_index <= idx
            /\ idx < state'.current_batch[1].end_index
            /\ (idx > 0 /\ state'.current_batch # state.current_batch) =>
                  /\ idx = state.current_batch[1].end_index
                  /\ state'.current_batch[1].batch_index =
                        state.current_batch[1].batch_index + 1]_vars

\* the loop ended after a full batch and a shorter last one
C35_Witness ==
    /\ pc = "pre_transform" /\ Ran("extract")
    /\ idx = NItems
    /\ Len(fetched) = NItems
    /\ state.current_batch # <<>>
    /\ state.current_batch[1].batch_index > 1
    /\ state.current_batch[1].batch_size < BatchSize

\* C36: complete is terminal for the checkpoint manager: a call other than
\* reset (and other than building the manager again) made while
\* current_stage is complete leaves it at complete.
C36_CompleteIsTerminal ==
    [][(/\ state.current_stage = "complete"
        /\ lastCall'.op \notin {"reset", "reload"}) =>
            state'.current_stage = "complete"]_vars

\* inside the stage runner complete is terminal: a run that starts from a
\* checkpoint whose current_stage is complete enters no stage body, keeps
\* current_stage at complete and, unless the databases cannot be
\* initialised, returns True; and no step of a run moves current_stage away
\* from complete
C36_HoldsInsideRun ==
    /\ [](loaded.current_stage = "complete" =>
             /\ executed = <<>>
             /\ state.current_stage = "complete"
             /\ pc = "done" => (result = "True" \/ cur = None))
    /\ [][(state.current_stage = "complete" /\ runs' = runs) =>
             state'.current_stage = "complete"]_vars

\* C37: a failure that cannot succeed on repetition is attempted exactly
\* once: when the fetch of an item has failed because its url answers 404 the
\* url was requested once, and when the databases could not be initialised
\* because the credentials are rejected the connection was attempted once.
C37_PermanentFailuresNotRetried ==
    /\ (\E u \in Urls : <<"extract", ItemId(u)>> \in failed) =>
          FetchAttempts("http_404") = 1
    /\ (pc = "done" /\ result = "False" /\ cur = None) =>
          \A kind \in PermanentKinds : ConnectAttempts(kind) = 1

\* the same, for the failures that are transient: they are retried, up to
\* the number of attempts of the loop
C37_TransientAreRetried ==
    /\ (\E u \in Urls : <<"extract", ItemId(u)>> \in failed) =>
          \A kind \in TransientKinds : FetchAttempts(kind) = max_retries
    /\ (pc = "done" /\ result = "False" /\ cur = None) =>
          \A kind \in TransientKinds :
              ConnectAttempts(kind) = connect_max_retries

(***************************************************************************)
(* The transform phase cancelled from outside: the process receives SIGINT *)
(* and Python raises KeyboardInterrupt in the main thread.  No handler is  *)
(* installed and no except clause of the pipeline catches it ('except      *)
(* Exception', lines 196 and 312), so it leaves the loops of               *)
(* _run_transform_phase through the exit of the with block, which is       *)
(* shutdown(wait=True): it returns when the queue is empty and every       *)
(* thread has ended.                                                       *)
(***************************************************************************)
Cancel ==
    /\ pc \in {"clean_submit", "clean_wait", "embed_submit", "embed_wait"}
    /\ pc' = "cancel_exit"
    /\ UNCHANGED <<poolFrame, state, canon, executed, cleanDir, embDir,
                   futures, faults, failed>>

\* the with block has ended and KeyboardInterrupt leaves run: the process
\* ends without a return value
CancelExit ==
    /\ pc = "cancel_exit"
    /\ \A t \in DOMAIN futures : futures[t] \in {"done", "collected"}
    /\ pc' = "cancelled"
    /\ UNCHANGED <<poolFrame, state, canon, executed, cleanDir, embDir,
                   futures, faults, failed>>

NextCancel ==
    \/ PoolBegin
    \/ SubmitClean
    \/ SubmitEmbed
    \/ TaskStart
    \/ TaskEnd
    \/ CollectClean
    \/ CollectEmbed
    \/ PoolExit
    \/ Cancel
    \/ CancelExit

SpecCancel == InitPool /\ [][NextCancel]_vars

\* C38: once the pipeline was cancelled no task is submitted and no queued
\* task is started, and the tasks that were running when it was cancelled
\* have finished when the process ends.
C38_CancelStopsDispatch ==
    /\ [][pc = "cancel_exit" =>
            /\ DOMAIN futures' = DOMAIN futures
            /\ \A t \in DOMAIN futures :
                  futures'[t] = "running" => futures[t] = "running"]_vars
    /\ [](pc = "cancelled" =>
             \A t \in DOMAIN futures : futures[t] # "running")
=============================================================================
